---- MODULE Spec2Model ----
(***************************************************************************)
(* A model of DefaultMainWindow (default_main_window.cpp): the window      *)
(* message router WndProc with its deferred destruction, the UI state      *)
(* machine (SwitchToConnectUI / SwitchToPeerList / SwitchToStreamingUI,    *)
(* PreTranslateMessage, OnMessage, OnDefaultAction) and the video frame    *)
(* pipeline DefaultMainWindow::VideoRenderer shared between the producer   *)
(* thread (OnFrame) and the UI thread (OnPaint).                           *)
(***************************************************************************)
EXTENDS Integers, Sequences, FiniteSets, TLC

(***************************************************************************)
(* Bounds of the model.                                                    *)
(***************************************************************************)
MaxPeers == 2
MaxPosted == 2
MaxThreadMsgs == 1
MaxDepth == 3
MaxDim == 2
MaxFrames == 3
MaxPolls == 2

(***************************************************************************)
(* Program constants.                                                      *)
(***************************************************************************)
LB_ERR == -1
HeaderItemData == -1
biBitCount == 32

NULL == "NULL"
HWND == "HWND"

CONNECT_TO_SERVER == "CONNECT_TO_SERVER"
LIST_PEERS == "LIST_PEERS"
STREAMING == "STREAMING"
UIStates == {CONNECT_TO_SERVER, LIST_PEERS, STREAMING}

VARIABLES
  \* DefaultMainWindow fields
  ui_, wnd_, callback_, auto_connect_, auto_call_,
  destroyed_, nested_msg_,
  \* the native window and its child controls
  hwndAlive, visible, listbox, cursel, focus, edit1, edit2,
  \* message queues: posted window messages, queued UI_THREAD_CALLBACK messages
  posted, threadMsgs,
  \* the call stack of WndProc activations
  stack,
  \* observations: the last outward call of a handler, the fault state,
  \* the last operation performed, calls of OnDestroyed, a WM_NCDESTROY seen
  \* in a nested dispatch, a use of the window handle after that
  lastCall, fault, lastOp, onDestroyed, nestedDestroy, usedDestroyed,
  \* VideoRenderer instances and the two threads working on them
  inst, local_renderer_, uiPc, uiInst, snap, painted,
  prodPc, prodInst, prodBuf, frameSeq, lastFrame,
  paintPending, framesSincePaint, coalesced,
  \* HandleTabbing: the shift key, its local variable focus, the control
  \* that had the focus when it was called
  shift, tabFocus, tabStart,
  \* the service configuration: has_no_UI_, headless_, systemService_; the
  \* service control database (a service of the configured name is
  \* registered or not); the position of Create, InstallService and
  \* RemoveService; the handles each of them holds open
  has_no_UI_, headless_, systemService_, registered, svcPc,
  createH, installH, removeH,
  \* what the service functions did: their return values, the call at which
  \* InstallService and RemoveService failed, the outcome of DeleteService, the status read by
  \* QueryServiceStatus, the number of polls, the calls made by Create and
  \* what its queries found
  installRet, removeRet, installFail, removeFail, deleteRet, dwCurrentState,
  polls, installCalls, removeCalls, queried

uiVars == <<ui_, wnd_, callback_, auto_connect_, auto_call_, hwndAlive, visible,
            listbox, cursel, focus, edit1, edit2, posted, threadMsgs,
            lastCall, fault, lastOp>>
wndVars == <<destroyed_, nested_msg_, stack, onDestroyed, nestedDestroy,
             usedDestroyed>>
vidVars == <<inst, local_renderer_, uiPc, uiInst, snap, painted, prodPc,
             prodInst, prodBuf, frameSeq, lastFrame, framesSincePaint,
             coalesced>>
tabVars == <<shift, tabFocus, tabStart>>
svcVars == <<has_no_UI_, headless_, systemService_, registered, svcPc,
             createH, installH, removeH, installRet, removeRet, installFail,
             removeFail, deleteRet, dwCurrentState, polls, installCalls, removeCalls,
             queried>>
vars == <<uiVars, wndVars, vidVars, paintPending, tabVars, svcVars>>

(***************************************************************************)
(* Text: a string of the edit controls is a sequence of characters.        *)
(***************************************************************************)
Digits == <<"0", "1", "2", "3", "4", "5", "6", "7", "8", "9">>

IsDigit(c) == \E i \in 1..10 : Digits[i] = c

DigitVal(c) == (CHOOSE i \in 1..10 : Digits[i] = c) - 1

RECURSIVE AtoiDigits(_, _)
AtoiDigits(s, acc) ==
  IF s = <<>> \/ ~IsDigit(Head(s)) THEN acc
  ELSE AtoiDigits(Tail(s), acc * 10 + DigitVal(Head(s)))

RECURSIVE SkipSpace(_)
SkipSpace(s) == IF s # <<>> /\ Head(s) = " " THEN SkipSpace(Tail(s)) ELSE s

\* atoi: leading blanks, an optional sign, then digits up to the first other
\* character
atoi(str) ==
  LET s == SkipSpace(str) IN
    IF s # <<>> /\ Head(s) = "-" THEN 0 - AtoiDigits(Tail(s), 0)
    ELSE IF s # <<>> /\ Head(s) = "+" THEN AtoiDigits(Tail(s), 0)
    ELSE AtoiDigits(s, 0)

RECURSIVE DigitsOf(_)
DigitsOf(n) ==
  IF n < 10 THEN <<Digits[n + 1]>>
  ELSE Append(DigitsOf(n \div 10), Digits[(n % 10) + 1])

\* sprintfn(buffer, sizeof(buffer), "%i", port) with char buffer[10]: at most
\* nine characters are kept
sprintfn(port) ==
  LET full == IF port < 0 THEN <<"-">> \o DigitsOf(0 - port) ELSE DigitsOf(port)
  IN  IF Len(full) > 9 THEN SubSeq(full, 1, 9) ELSE full

\* the servers and ports given to the constructor, the texts a user types
Servers == {"localhost"}
Ports == {8888}
TypedTexts == {<<"10.0.0.1", <<>> >>, <<"10.0.0.1", <<" ", "8", "0", "x">> >>}

(***************************************************************************)
(* Peers and the list box.                                                 *)
(***************************************************************************)
PeerIds == 1..MaxPeers
PeerSets == SUBSET PeerIds
PeerNames == <<"alice", "bob", "carol", "dave", "erin">>

HeaderItem == [str |-> "List of currently connected peers:",
               data |-> HeaderItemData]

\* AddListBoxItem: LB_ADDSTRING on a list box without LBS_SORT appends the
\* string, LB_SETITEMDATA tags the new entry
AddListBoxItem(items, str, item_data) ==
  Append(items, [str |-> str, data |-> item_data])

\* the loop over the std::map Peers: ascending peer id
RECURSIVE AddPeers(_, _)
AddPeers(items, peers) ==
  IF peers = {} THEN items
  ELSE LET i == CHOOSE p \in peers : \A q \in peers : p <= q
       IN  AddPeers(AddListBoxItem(items, PeerNames[i], i), peers \ {i})

ResetContentKeepsItems(items) == items

\* LB_RESETCONTENT
ResetContent(items) == <<>>

(***************************************************************************)
(* Controls and their layout.                                              *)
(***************************************************************************)
ConnectControls == {"label1_", "edit1_", "label2_", "edit2_", "button_"}
Controls == ConnectControls \cup {"listbox_"}

IsWindow == wnd_ # NULL /\ hwndAlive

\* ::ShowWindow on child controls; it fails on controls of a destroyed window
ShowWindow(alive, ctls, vis, show) ==
  IF ~alive THEN vis
  ELSE IF show THEN vis \cup ctls ELSE vis \ ctls

LayoutConnectUI(alive, show, vis) == ShowWindow(alive, ConnectControls, vis, show)

LayoutPeerListUI(alive, show, vis) == ShowWindow(alive, {"listbox_"}, vis, show)

InvalidateRectQueues(pending) == pending + 1

\* InvalidateRect adds to the update region of the window: the region is
\* empty or not, however often it is invalidated
InvalidateRect(pending) == 1

(***************************************************************************)
(* The observer (MainWindowCallback) and the calls made to it.             *)
(***************************************************************************)
NoCall == [fn |-> "none", server |-> "", port |-> 0, peer |-> 0]
Call(f) == [NoCall EXCEPT !.fn = f]
StartLoginCall(server, port) ==
  [NoCall EXCEPT !.fn = "StartLogin", !.server = server, !.port = port]
ConnectToPeerCall(id) == [NoCall EXCEPT !.fn = "ConnectToPeer", !.peer = id]

\* the record of the last operation; again: it repeats the operation before it
Op(name) == [op |-> name, peers |-> {}, again |-> FALSE]

EscapeCallIgnoresState(cb, ui) ==
  IF cb THEN Call("DisconnectFromServer") ELSE NoCall

\* the escape gesture of PreTranslateMessage
EscapeCall(cb, ui) ==
  IF cb
  THEN IF ui = STREAMING THEN Call("DisconnectFromCurrentPeer")
       ELSE Call("DisconnectFromServer")
  ELSE NoCall

\* OnDefaultAction: the call it makes
OnDefaultAction(cb, ui, server, port_str, items, sel) ==
  IF ~cb THEN NoCall
  ELSE IF ui = CONNECT_TO_SERVER
  THEN StartLoginCall(server, IF Len(port_str) # 0 THEN atoi(port_str) ELSE 0)
  ELSE IF ui = LIST_PEERS
  THEN IF sel # LB_ERR
       THEN LET peer_id == items[sel + 1].data
            IN  IF peer_id # -1 /\ cb THEN ConnectToPeerCall(peer_id) ELSE NoCall
       ELSE NoCall
  ELSE Call("MessageBoxA")

\* OnMessage, WM_COMMAND: the notification of a child control
OnCommand(lp, code, cb, ui, server, port_str, items, sel) ==
  IF lp = "button_"
  THEN IF code = "BN_CLICKED"
       THEN OnDefaultAction(cb, ui, server, port_str, items, sel) ELSE NoCall
  ELSE IF lp = "listbox_"
  THEN IF code = "LBN_DBLCLK"
       THEN OnDefaultAction(cb, ui, server, port_str, items, sel) ELSE NoCall
  ELSE NoCall

\* OnMessage, WM_CLOSE
OnClose(cb) == IF cb THEN Call("Close") ELSE NoCall

\* OnMessage, WM_SIZE
OnSize(alive, ui, vis) ==
  IF ui = CONNECT_TO_SERVER THEN LayoutConnectUI(alive, TRUE, vis)
  ELSE IF ui = LIST_PEERS THEN LayoutPeerListUI(alive, TRUE, vis)
  ELSE vis

\* OnMessage, WM_SETFOCUS
OnSetFocus(ui, f) ==
  IF ui = CONNECT_TO_SERVER THEN "edit1_"
  ELSE IF ui = LIST_PEERS THEN "listbox_"
  ELSE f

\* the return value of OnMessage: whether the message was handled
Handled(msg) ==
  msg \in {"WM_ERASEBKGND", "WM_PAINT", "WM_SETFOCUS", "WM_CTLCOLORSTATIC",
           "WM_COMMAND"}

\* OnMessage: what the handler of a message does to the window
OnMessage(msg, lp, code) ==
  /\ visible' = IF msg = "WM_SIZE" THEN OnSize(hwndAlive, ui_, visible)
                ELSE visible
  /\ focus' = IF msg = "WM_SETFOCUS" THEN OnSetFocus(ui_, focus) ELSE focus
  /\ lastCall' = IF msg = "WM_COMMAND"
                 THEN OnCommand(lp, code, callback_, ui_, edit1, edit2,
                                listbox, cursel)
                 ELSE IF msg = "WM_CLOSE" THEN OnClose(callback_)
                 ELSE NoCall

(***************************************************************************)
(* VideoRenderer instances.  Two can exist at a time: reset(new ...)       *)
(* constructs the new renderer before it destroys the old one.             *)
(***************************************************************************)
RIds == {1, 2}

NullImage == [alloc |-> FALSE, len |-> 0, lo |-> 0, hi |-> 0]

FreeInst == [st |-> "free", lockInit |-> FALSE, sink |-> FALSE,
             biWidth |-> 0, biHeight |-> 0, biSizeImage |-> 0,
             image |-> NullImage, lockOwner |-> "none", lockCount |-> 0]

NoBuf == [w |-> 0, h |-> 0, tag |-> 0]
NoSnap == [w |-> 0, h |-> 0]
NoPaint == [biWidth |-> 0, biHeight |-> 0, biSizeImage |-> 0,
            image |-> NullImage]

(***************************************************************************)
(* The state after the constructor DefaultMainWindow::DefaultMainWindow.   *)
(***************************************************************************)
CtorState(auto_connect, auto_call) ==
  /\ ui_ = CONNECT_TO_SERVER
  /\ wnd_ = NULL
  /\ callback_ = FALSE
  /\ auto_connect_ = auto_connect
  /\ auto_call_ = auto_call
  /\ destroyed_ = FALSE
  /\ nested_msg_ = 0
  /\ hwndAlive = FALSE
  /\ visible = {}
  /\ listbox = <<>>
  /\ cursel = LB_ERR
  /\ focus = "none"
  /\ edit1 = ""
  /\ edit2 = <<>>
  /\ posted = <<>>
  /\ threadMsgs = 0
  /\ stack = <<>>
  /\ lastCall = NoCall
  /\ fault = "none"
  /\ lastOp = Op("DefaultMainWindow")
  /\ onDestroyed = 0
  /\ nestedDestroy = FALSE
  /\ usedDestroyed = FALSE
  /\ inst = [i \in RIds |-> FreeInst]
  /\ local_renderer_ = 0
  /\ uiPc = "idle"
  /\ uiInst = 0
  /\ snap = NoSnap
  /\ painted = NoPaint
  /\ prodPc = "idle"
  /\ prodInst = 0
  /\ prodBuf = NoBuf
  /\ frameSeq = 0
  /\ lastFrame = [i \in RIds |-> NoBuf]
  /\ paintPending = 0
  /\ framesSincePaint = 0
  /\ coalesced = 0
  /\ shift = FALSE
  /\ tabFocus = "none"
  /\ tabStart = "none"

\* the SC_HANDLE variables of a function: TRUE is an open handle, FALSE is NULL
NoHandles == [schSCManager |-> FALSE, schService |-> FALSE]

\* The service side of the constructed object: has_no_UI_ is a constructor
\* argument, headless_ and systemService_ are set by Create; whether a service
\* of the configured name is registered is the state of the machine.  pc is
\* "start" before Create and "window" when Create has done its service part.
ServiceCtor(no_ui, present, pc) ==
  /\ has_no_UI_ = no_ui
  /\ headless_ = FALSE
  /\ systemService_ = FALSE
  /\ registered = present
  /\ svcPc = pc
  /\ createH = NoHandles
  /\ installH = NoHandles
  /\ removeH = NoHandles
  /\ installRet = "none"
  /\ removeRet = "none"
  /\ installFail = "none"
  /\ removeFail = "none"
  /\ deleteRet = "none"
  /\ dwCurrentState = "none"
  /\ polls = 0
  /\ installCalls = 0
  /\ removeCalls = 0
  /\ queried = "none"

\* the UI thread is between two messages: no handler runs, nothing is painted
UIThreadIdle == fault = "none" /\ uiPc = "idle" /\ stack = <<>>

(***************************************************************************)
(* The UI state machine.                                                   *)
(***************************************************************************)
\* PostMessage: the queue of posted messages (the model bounds its length)
PostMessage(queue, m) == Append(queue, m)

\* the body of SwitchToConnectUI, on a window that is alive or not
ConnectUI(alive) ==
  /\ auto_connect_ => Len(posted) < MaxPosted
  /\ visible' = LayoutConnectUI(alive, TRUE,
                                LayoutPeerListUI(alive, FALSE, visible))
  /\ paintPending' = InvalidateRect(paintPending)
  /\ ui_' = CONNECT_TO_SERVER
  /\ focus' = "edit1_"
  /\ posted' = IF auto_connect_ THEN PostMessage(posted, "BM_CLICK") ELSE posted

\* Create: CreateWindowExW (WM_CREATE stores the handle), CreateChildWindows,
\* SwitchToConnectUI
Create ==
  /\ UIThreadIdle
  /\ wnd_ = NULL /\ onDestroyed = 0
  /\ wnd_' = HWND
  /\ hwndAlive' = TRUE
  /\ \E server \in Servers, port \in Ports :
       edit1' = server /\ edit2' = sprintfn(port)
  /\ ConnectUI(TRUE)
  /\ lastCall' = NoCall
  /\ lastOp' = Op("Create")
  /\ UNCHANGED <<callback_, auto_connect_, auto_call_, listbox, cursel,
                 threadMsgs, fault>>
  /\ UNCHANGED <<tabVars, svcVars, wndVars, vidVars>>

RegisterObserver(cb) ==
  /\ UIThreadIdle
  /\ callback_' = cb
  /\ lastCall' = NoCall
  /\ lastOp' = Op("RegisterObserver")
  /\ UNCHANGED <<ui_, wnd_, auto_connect_, auto_call_, hwndAlive, visible,
                 listbox, cursel, focus, edit1, edit2, posted, threadMsgs, fault>>
  /\ UNCHANGED <<tabVars, svcVars, wndVars, vidVars, paintPending>>

SwitchToConnectUI ==
  /\ UIThreadIdle
  /\ IsWindow
  /\ ConnectUI(hwndAlive)
  /\ lastCall' = NoCall
  /\ lastOp' = Op("SwitchToConnectUI")
  /\ UNCHANGED <<wnd_, callback_, auto_connect_, auto_call_, hwndAlive, listbox,
                 cursel, edit1, edit2, threadMsgs, fault>>
  /\ UNCHANGED <<tabVars, svcVars, wndVars, vidVars>>

\* the list SwitchToPeerList builds in the list box
PeerListItems(items, peers) ==
  AddPeers(AddListBoxItem(ResetContent(items),
                          "List of currently connected peers:", -1), peers)

PeerListSelectionFirst(auto_call, peers, count) ==
  IF auto_call /\ peers # {} /\ count # LB_ERR THEN 0 ELSE LB_ERR

\* the selection SwitchToPeerList leaves: LB_RESETCONTENT removes it, auto-call
\* selects the last entry
PeerListSelection(auto_call, peers, count) ==
  IF auto_call /\ peers # {} /\ count # LB_ERR THEN count - 1 ELSE LB_ERR

SwitchToPeerList(peers) ==
  /\ UIThreadIdle
  /\ IsWindow
  /\ (auto_call_ /\ peers # {}) => Len(posted) < MaxPosted
  /\ listbox' = PeerListItems(listbox, peers)
  /\ ui_' = LIST_PEERS
  /\ visible' = LayoutPeerListUI(hwndAlive, TRUE,
                                 LayoutConnectUI(hwndAlive, FALSE, visible))
  /\ focus' = "listbox_"
  /\ cursel' = PeerListSelection(auto_call_, peers, Len(listbox'))
  /\ posted' = IF auto_call_ /\ peers # {} /\ cursel' # LB_ERR
               THEN PostMessage(posted, "LBN_DBLCLK") ELSE posted
  /\ lastCall' = NoCall
  /\ lastOp' = [op |-> "SwitchToPeerList", peers |-> peers,
                again |-> (lastOp.op = "SwitchToPeerList"
                           /\ lastOp.peers = peers)]
  /\ UNCHANGED <<wnd_, callback_, auto_connect_, auto_call_, hwndAlive, edit1,
                 edit2, threadMsgs, fault>>
  /\ UNCHANGED <<tabVars, svcVars, wndVars, vidVars, paintPending>>

StreamingUIKeepsList(alive, vis) == LayoutConnectUI(alive, FALSE, vis)

\* the controls SwitchToStreamingUI leaves visible
StreamingUI(alive, vis) ==
  LayoutPeerListUI(alive, FALSE, LayoutConnectUI(alive, FALSE, vis))

SwitchToStreamingUI ==
  /\ UIThreadIdle
  /\ IsWindow
  /\ visible' = StreamingUI(hwndAlive, visible)
  /\ paintPending' = InvalidateRect(paintPending)
  /\ ui_' = STREAMING
  /\ lastCall' = NoCall
  /\ lastOp' = Op("SwitchToStreamingUI")
  /\ UNCHANGED <<wnd_, callback_, auto_connect_, auto_call_, hwndAlive, listbox,
                 cursel, focus, edit1, edit2, posted, threadMsgs, fault>>
  /\ UNCHANGED <<tabVars, svcVars, wndVars, vidVars>>

(***************************************************************************)
(* PreTranslateMessage: the gestures found in messages taken from the      *)
(* queue of the UI thread.                                                 *)
(***************************************************************************)
\* WM_CHAR, VK_RETURN: OnDefaultAction
PreTranslateReturn ==
  /\ UIThreadIdle
  /\ IsWindow
  /\ lastCall' = OnDefaultAction(callback_, ui_, edit1, edit2, listbox, cursel)
  /\ lastOp' = Op("VK_RETURN")
  /\ UNCHANGED <<ui_, wnd_, callback_, auto_connect_, auto_call_, hwndAlive,
                 visible, listbox, cursel, focus, edit1, edit2, posted,
                 threadMsgs, fault>>
  /\ UNCHANGED <<tabVars, svcVars, wndVars, vidVars, paintPending>>

\* WM_CHAR, VK_ESCAPE
PreTranslateEscape ==
  /\ UIThreadIdle
  /\ IsWindow
  /\ lastCall' = EscapeCall(callback_, ui_)
  /\ lastOp' = Op("VK_ESCAPE")
  /\ UNCHANGED <<ui_, wnd_, callback_, auto_connect_, auto_call_, hwndAlive,
                 visible, listbox, cursel, focus, edit1, edit2, posted,
                 threadMsgs, fault>>
  /\ UNCHANGED <<tabVars, svcVars, wndVars, vidVars, paintPending>>

\* QueueUIThreadCallback: PostThreadMessage(ui_thread_id_, UI_THREAD_CALLBACK)
QueueUIThreadCallback ==
  /\ fault = "none"
  /\ stack = <<>>
  /\ threadMsgs < MaxThreadMsgs
  /\ threadMsgs' = threadMsgs + 1
  /\ UNCHANGED <<ui_, wnd_, callback_, auto_connect_, auto_call_, hwndAlive,
                 visible, listbox, cursel, focus, edit1, edit2, posted,
                 lastCall, fault, lastOp>>
  /\ UNCHANGED <<tabVars, svcVars, wndVars, vidVars, paintPending>>

\* callback_->UIThreadCallback(...): the outcomes of the call.  The pointer is
\* not tested; a call through a null pointer is undefined behaviour.
UIThreadCallbackOutcomes(cb) ==
  IF cb THEN {"none"} ELSE {"crashed", "undefined"}

\* msg->hwnd == NULL && msg->message == UI_THREAD_CALLBACK
PreTranslateThreadCallback ==
  /\ UIThreadIdle
  /\ threadMsgs > 0
  /\ threadMsgs' = threadMsgs - 1
  /\ fault' \in UIThreadCallbackOutcomes(callback_)
  /\ lastCall' = IF callback_ THEN Call("UIThreadCallback") ELSE NoCall
  /\ lastOp' = Op("UI_THREAD_CALLBACK")
  /\ UNCHANGED <<ui_, wnd_, callback_, auto_connect_, auto_call_, hwndAlive,
                 visible, listbox, cursel, focus, edit1, edit2, posted>>
  /\ UNCHANGED <<tabVars, svcVars, wndVars, vidVars, paintPending>>

(***************************************************************************)
(* Window messages dispatched to WndProc from the message loop, handled    *)
(* without a nested dispatch.                                              *)
(***************************************************************************)
UserCommands == {<<"button_", "BN_CLICKED">>, <<"listbox_", "LBN_DBLCLK">>}

DispatchMessage(msg, lp, code) ==
  /\ UIThreadIdle
  /\ IsWindow
  /\ \/ msg \in {"WM_SIZE", "WM_SETFOCUS"} /\ lp = "none" /\ code = "none"
     \/ msg = "WM_COMMAND" /\ <<lp, code>> \in UserCommands /\ lp \in visible
  /\ OnMessage(msg, lp, code)
  /\ lastOp' = Op(IF msg = "WM_COMMAND" THEN code ELSE msg)
  /\ UNCHANGED <<ui_, wnd_, callback_, auto_connect_, auto_call_, hwndAlive,
                 listbox, cursel, edit1, edit2, posted, threadMsgs, fault>>
  /\ UNCHANGED <<tabVars, svcVars, wndVars, vidVars, paintPending>>

\* a posted message reaches its window: BM_CLICK makes the button send
\* WM_COMMAND / BN_CLICKED to its parent, the posted WM_COMMAND / LBN_DBLCLK
\* is dispatched as it is
PostedCommand(m) ==
  IF m = "BM_CLICK" THEN <<"button_", "BN_CLICKED">>
  ELSE <<"listbox_", "LBN_DBLCLK">>

DispatchPosted ==
  /\ UIThreadIdle
  /\ IsWindow
  /\ posted # <<>>
  /\ posted' = Tail(posted)
  /\ LET c == PostedCommand(Head(posted)) IN OnMessage("WM_COMMAND", c[1], c[2])
  /\ lastOp' = Op(IF Head(posted) = "BM_CLICK" THEN "posted BM_CLICK"
                  ELSE "posted LBN_DBLCLK")
  /\ UNCHANGED <<ui_, wnd_, callback_, auto_connect_, auto_call_, hwndAlive,
                 listbox, cursel, edit1, edit2, threadMsgs, fault>>
  /\ UNCHANGED <<tabVars, svcVars, wndVars, vidVars, paintPending>>

\* the user selects an entry of the list: the list box moves its selection and
\* notifies the parent with WM_COMMAND / LBN_SELCHANGE
ListSelect(i) ==
  /\ UIThreadIdle
  /\ IsWindow
  /\ "listbox_" \in visible
  /\ i \in 0..(Len(listbox) - 1)
  /\ cursel' = i
  /\ lastCall' = OnCommand("listbox_", "LBN_SELCHANGE", callback_, ui_, edit1,
                           edit2, listbox, i)
  /\ lastOp' = Op("LBN_SELCHANGE")
  /\ UNCHANGED <<ui_, wnd_, callback_, auto_connect_, auto_call_, hwndAlive,
                 visible, listbox, focus, edit1, edit2, posted, threadMsgs,
                 fault>>
  /\ UNCHANGED <<tabVars, svcVars, wndVars, vidVars, paintPending>>

\* the user types into the edit controls: the parent is notified with
\* WM_COMMAND / EN_CHANGE
UserType(server, port_str) ==
  /\ UIThreadIdle
  /\ IsWindow
  /\ {"edit1_", "edit2_"} \subseteq visible
  /\ edit1' = server
  /\ edit2' = port_str
  /\ lastCall' = OnCommand("edit1_", "EN_CHANGE", callback_, ui_, server,
                           port_str, listbox, cursel)
  /\ lastOp' = Op("EN_CHANGE")
  /\ UNCHANGED <<ui_, wnd_, callback_, auto_connect_, auto_call_, hwndAlive,
                 visible, listbox, cursel, focus, posted, threadMsgs, fault>>
  /\ UNCHANGED <<tabVars, svcVars, wndVars, vidVars, paintPending>>

UIInit == /\ \E auto_connect \in BOOLEAN, auto_call \in BOOLEAN :
               CtorState(auto_connect, auto_call)
          /\ ServiceCtor(FALSE, FALSE, "window")

UINext ==
  \/ Create
  \/ \E cb \in BOOLEAN : RegisterObserver(cb)
  \/ SwitchToConnectUI
  \/ \E peers \in PeerSets : SwitchToPeerList(peers)
  \/ SwitchToStreamingUI
  \/ PreTranslateReturn
  \/ PreTranslateEscape
  \/ QueueUIThreadCallback
  \/ PreTranslateThreadCallback
  \/ \E msg \in {"WM_SIZE", "WM_SETFOCUS", "WM_COMMAND"},
        lp \in {"none", "button_", "listbox_"},
        code \in {"none", "BN_CLICKED", "LBN_DBLCLK"} :
       DispatchMessage(msg, lp, code)
  \/ DispatchPosted
  \/ \E i \in 0..MaxPeers : ListSelect(i)
  \/ \E t \in TypedTexts : UserType(t[1], t[2])

SpecUI == UIInit /\ [][UINext]_vars

(***************************************************************************)
(* WndProc: the message router.  A message can be dispatched while the     *)
(* handler of another one runs, so the activations of WndProc form a       *)
(* stack.  An activation is in OnMessage, then (an unhandled message) in   *)
(* DefWindowProc, then in the epilogue that calls OnDestroyed.             *)
(* nested_msg_ points to the msg parameter of the innermost activation:    *)
(* 0 is the null pointer, n the activation at depth n.                     *)
(***************************************************************************)
WndMsgs == {"WM_SIZE", "WM_COMMAND", "WM_CLOSE", "WM_NCDESTROY"}

Top == stack[Len(stack)]

\* DestroyWindow sends WM_NCDESTROY: it is called by Destroy() from outside
\* any dispatch, by the observer inside a notification, and by DefWindowProc
\* for WM_CLOSE.  Other messages arrive from the message loop or while a
\* handler or DefWindowProc calls into the window system.
CanDispatch(msg) ==
  IF stack = <<>> THEN TRUE
  ELSE IF msg = "WM_NCDESTROY"
  THEN \/ Top.pc = "OnMessage" /\ Top.msg \in {"WM_CLOSE", "WM_COMMAND"}
          /\ callback_
       \/ Top.pc = "DefWindowProc" /\ Top.msg = "WM_CLOSE"
  ELSE Top.pc \in {"OnMessage", "DefWindowProc"} /\ Top.msg # "WM_NCDESTROY"

\* lines 754-755: prev_nested_msg = nested_msg_; nested_msg_ = &msg
WndProcEnter(msg, lp, code) ==
  /\ fault = "none" /\ uiPc = "idle"
  /\ IsWindow
  /\ Len(stack) < MaxDepth
  /\ CanDispatch(msg)
  /\ IF msg = "WM_COMMAND" THEN <<lp, code>> \in UserCommands
     ELSE lp = "none" /\ code = "none"
  /\ stack' = Append(stack, [msg |-> msg, lp |-> lp, code |-> code,
                             prev_nested_msg |-> nested_msg_,
                             pc |-> "OnMessage"])
  /\ nested_msg_' = Len(stack) + 1
  \* WM_NCDESTROY is the last message of a window: its children are gone
  /\ hwndAlive' = (hwndAlive /\ msg # "WM_NCDESTROY")
  /\ visible' = IF msg = "WM_NCDESTROY" THEN {} ELSE visible
  /\ nestedDestroy' = (nestedDestroy \/ (msg = "WM_NCDESTROY" /\ stack # <<>>))
  /\ lastOp' = Op(msg)
  /\ UNCHANGED <<ui_, wnd_, callback_, auto_connect_, auto_call_, listbox,
                 cursel, focus, edit1, edit2, posted, threadMsgs, lastCall,
                 fault>>
  /\ UNCHANGED <<destroyed_, onDestroyed, usedDestroyed>>
  /\ UNCHANGED <<tabVars, svcVars, vidVars, paintPending>>

\* lines 757-765: OnMessage returns; WM_NCDESTROY sets destroyed_, another
\* unhandled message goes to DefWindowProc
AfterOnMessage(msg) ==
  IF msg = "WM_NCDESTROY" THEN "Epilogue"
  ELSE IF ~Handled(msg) THEN "DefWindowProc"
  ELSE "Epilogue"

WndProcOnMessage ==
  /\ fault = "none"
  /\ stack # <<>> /\ Top.pc = "OnMessage"
  /\ OnMessage(Top.msg, Top.lp, Top.code)
  /\ destroyed_' = (destroyed_ \/ Top.msg = "WM_NCDESTROY")
  /\ stack' = [stack EXCEPT ![Len(stack)].pc = AfterOnMessage(Top.msg)]
  \* DefWindowProc is given the handle of this window, destroyed or not
  /\ usedDestroyed' = (usedDestroyed
                       \/ (AfterOnMessage(Top.msg) = "DefWindowProc"
                           /\ ~hwndAlive))
  /\ lastOp' = Op("OnMessage")
  /\ UNCHANGED <<ui_, wnd_, callback_, auto_connect_, auto_call_, hwndAlive,
                 listbox, cursel, edit1, edit2, posted, threadMsgs, fault>>
  /\ UNCHANGED <<nested_msg_, onDestroyed, nestedDestroy>>
  /\ UNCHANGED <<tabVars, svcVars, vidVars, paintPending>>

\* line 764: ::DefWindowProc returns
WndProcDefWindowProc ==
  /\ fault = "none"
  /\ stack # <<>> /\ Top.pc = "DefWindowProc"
  /\ stack' = [stack EXCEPT ![Len(stack)].pc = "Epilogue"]
  /\ lastOp' = Op("DefWindowProc")
  /\ UNCHANGED <<ui_, wnd_, callback_, auto_connect_, auto_call_, hwndAlive,
                 visible, listbox, cursel, focus, edit1, edit2, posted,
                 threadMsgs, lastCall, fault>>
  /\ UNCHANGED <<destroyed_, nested_msg_, onDestroyed, nestedDestroy,
                 usedDestroyed>>
  /\ UNCHANGED <<tabVars, svcVars, vidVars, paintPending>>

NotifyDestroyedWhileNested(destroyed, prev_nested_msg) == destroyed

\* line 767: me->destroyed_ && prev_nested_msg == NULL
NotifyDestroyed(destroyed, prev_nested_msg) ==
  destroyed /\ prev_nested_msg = 0

\* lines 767-774: OnDestroyed() when due, nested_msg_ = prev_nested_msg, return
WndProcEpilogue ==
  /\ fault = "none"
  /\ stack # <<>> /\ Top.pc = "Epilogue"
  /\ IF NotifyDestroyed(destroyed_, Top.prev_nested_msg)
     THEN /\ onDestroyed' = onDestroyed + 1
          /\ wnd_' = NULL
          /\ destroyed_' = FALSE
     ELSE UNCHANGED <<onDestroyed, wnd_, destroyed_>>
  /\ nested_msg_' = Top.prev_nested_msg
  /\ stack' = SubSeq(stack, 1, Len(stack) - 1)
  /\ lastOp' = Op("return")
  /\ UNCHANGED <<ui_, callback_, auto_connect_, auto_call_, hwndAlive,
                 visible, listbox, cursel, focus, edit1, edit2, posted,
                 threadMsgs, lastCall, fault>>
  /\ UNCHANGED <<nestedDestroy, usedDestroyed>>
  /\ UNCHANGED <<tabVars, svcVars, vidVars, paintPending>>

WndInit == CtorState(FALSE, FALSE) /\ ServiceCtor(FALSE, FALSE, "window")

WndNext ==
  \/ Create
  \/ \E cb \in BOOLEAN : RegisterObserver(cb)
  \/ \E msg \in WndMsgs, lp \in {"none", "button_", "listbox_"},
        code \in {"none", "BN_CLICKED", "LBN_DBLCLK"} :
       WndProcEnter(msg, lp, code)
  \/ WndProcOnMessage
  \/ WndProcDefWindowProc
  \/ WndProcEpilogue

SpecWnd == WndInit /\ [][WndNext]_vars

(***************************************************************************)
(* DefaultMainWindow::VideoRenderer.  The producer thread of the video     *)
(* track calls OnFrame; the UI thread constructs, paints and destroys.     *)
(* The image buffer is modelled by its length and by the frames that wrote *)
(* its first and its second half (0: not written since the allocation).    *)
(***************************************************************************)
Abs(n) == IF n < 0 THEN 0 - n ELSE n

FrameDims == 1..MaxDim

\* the sizes of the frames a track delivers: OnFrame takes what it is given,
\* a frame without pixels too
ZeroSizes == {<<0, 1>>}
FrameSizes == (FrameDims \X FrameDims) \cup ZeroSizes
Rotations == {0, 90, 180, 270}

\* bmi_.bmiHeader.biBitCount >> 3
BytesPerPixel == biBitCount \div 8

\* webrtc::I420Buffer::Rotate: a quarter turn swaps width and height
Rotate(w, h, rotation) ==
  IF rotation \in {90, 270} THEN [w |-> h, h |-> w] ELSE [w |-> w, h |-> h]

CanEnterIgnoresOwner(r, thread) == TRUE

\* EnterCriticalSection(&buffer_lock_) returns when no other thread owns it
CanEnter(r, thread) == r.lockOwner = "none" \/ r.lockOwner = thread

\* AutoLock: Lock() in the constructor, Unlock() in the destructor
Lock(r, thread) ==
  [r EXCEPT !.lockOwner = thread,
            !.lockCount = IF r.lockOwner = thread THEN r.lockCount + 1 ELSE 1]

UnlockKeepsOwner(r) ==
  [r EXCEPT !.lockCount = IF r.lockCount <= 1 THEN 0 ELSE r.lockCount - 1]

\* LeaveCriticalSection: the owner lets go with its last Unlock
Unlock(r) ==
  [r EXCEPT !.lockOwner = IF r.lockCount <= 1 THEN "none" ELSE r.lockOwner,
            !.lockCount = IF r.lockCount <= 1 THEN 0 ELSE r.lockCount - 1]

\* the constructor up to the registration: the lock and bmi_
Construct(width, height) ==
  [FreeInst EXCEPT !.st = "ctor", !.lockInit = TRUE,
                   !.biWidth = width, !.biHeight = 0 - height,
                   !.biSizeImage = width * height * BytesPerPixel]

\* rendered_track_->AddOrUpdateSink(this, ...)
AddOrUpdateSink(r) == [r EXCEPT !.sink = TRUE, !.st = "live"]

DestructDeletesLockFirst(r) == [r EXCEPT !.lockInit = FALSE, !.st = "dtor"]

\* the destructor, first statement: rendered_track_->RemoveSink(this)
DestructFirst(r) == [r EXCEPT !.sink = FALSE, !.st = "dtor"]

\* the destructor, the rest: DeleteCriticalSection, then the members go
DestructRest(r) == FreeInst

\* the video source delivers a frame to a sink while holding the lock of its
\* sink list: RemoveSink returns only when no frame is being delivered
RemoveSinkReturns(i) == prodPc = "idle" \/ prodInst # i

SameSizeWidthOnly(width, height, biWidth, biHeight) == width = biWidth

\* SetSize, line 977: the test that skips the reallocation
SameSize(width, height, biWidth, biHeight) ==
  width = biWidth /\ height = biHeight

\* SetSize: under the (recursive) lock, new dimensions and a new buffer
SetSize(r, width, height) ==
  IF SameSize(width, height, r.biWidth, r.biHeight) THEN r
  ELSE [r EXCEPT !.biWidth = width, !.biHeight = 0 - height,
                 !.biSizeImage = width * height * BytesPerPixel,
                 !.image = [alloc |-> TRUE,
                            len |-> width * height * BytesPerPixel,
                            lo |-> 0, hi |-> 0]]

FreeIds == {i \in RIds : inst[i].st = "free"}

\* StartLocalRenderer / StartRemoteRenderer: new VideoRenderer(handle(), 1, 1,
\* track) runs the constructor up to the registration
StartLocalRenderer ==
  /\ UIThreadIdle
  /\ IsWindow
  /\ FreeIds # {}
  /\ LET i == CHOOSE j \in FreeIds : \A k \in FreeIds : j <= k IN
       /\ inst' = [inst EXCEPT ![i] = Construct(1, 1)]
       /\ uiInst' = i
  /\ uiPc' = "ctor"
  /\ UNCHANGED <<local_renderer_, snap, painted, prodPc, prodInst, prodBuf,
                 frameSeq, lastFrame, framesSincePaint, coalesced>>
  /\ UNCHANGED <<tabVars, svcVars, uiVars, wndVars, paintPending>>

\* the constructor registers the sink; local_renderer_.reset(p) stores the new
\* renderer and goes on to destroy the old one
RendererRegister ==
  /\ fault = "none"
  /\ uiPc = "ctor"
  /\ inst' = [inst EXCEPT ![uiInst] = AddOrUpdateSink(inst[uiInst])]
  /\ local_renderer_' = uiInst
  /\ uiPc' = IF local_renderer_ # 0 THEN "dtor" ELSE "idle"
  /\ uiInst' = local_renderer_
  /\ UNCHANGED <<snap, painted, prodPc, prodInst, prodBuf, frameSeq, lastFrame,
                 framesSincePaint, coalesced>>
  /\ UNCHANGED <<tabVars, svcVars, uiVars, wndVars, paintPending>>

\* StopLocalRenderer / StopRemoteRenderer: local_renderer_.reset()
StopLocalRenderer ==
  /\ UIThreadIdle
  /\ local_renderer_ # 0
  /\ local_renderer_' = 0
  /\ uiPc' = "dtor"
  /\ uiInst' = local_renderer_
  /\ UNCHANGED <<inst, snap, painted, prodPc, prodInst, prodBuf, frameSeq,
                 lastFrame, framesSincePaint, coalesced>>
  /\ UNCHANGED <<tabVars, svcVars, uiVars, wndVars, paintPending>>

\* ~VideoRenderer, first statement
RendererDestructFirst ==
  /\ fault = "none"
  /\ uiPc = "dtor"
  /\ RemoveSinkReturns(uiInst)
  /\ inst' = [inst EXCEPT ![uiInst] = DestructFirst(inst[uiInst])]
  /\ uiPc' = "dtor_rest"
  /\ UNCHANGED <<local_renderer_, uiInst, snap, painted, prodPc, prodInst,
                 prodBuf, frameSeq, lastFrame, framesSincePaint, coalesced>>
  /\ UNCHANGED <<tabVars, svcVars, uiVars, wndVars, paintPending>>

\* ~VideoRenderer, the rest
RendererDestructRest ==
  /\ fault = "none"
  /\ uiPc = "dtor_rest"
  /\ inst' = [inst EXCEPT ![uiInst] = DestructRest(inst[uiInst])]
  /\ lastFrame' = [lastFrame EXCEPT ![uiInst] = NoBuf]
  /\ uiPc' = "idle"
  /\ uiInst' = 0
  /\ UNCHANGED <<local_renderer_, snap, painted, prodPc, prodInst, prodBuf,
                 frameSeq, framesSincePaint, coalesced>>
  /\ UNCHANGED <<tabVars, svcVars, uiVars, wndVars, paintPending>>

(***************************************************************************)
(* OnFrame, on the producer thread.                                        *)
(***************************************************************************)
\* lines 990-998: AutoLock, then the rotated buffer
OnFrameEnter(i, w, h, rotation) ==
  /\ fault = "none"
  /\ prodPc = "idle"
  /\ frameSeq < MaxFrames
  /\ inst[i].sink
  /\ CanEnter(inst[i], "producer")
  /\ inst' = [inst EXCEPT ![i] = Lock(inst[i], "producer")]
  /\ frameSeq' = frameSeq + 1
  /\ LET b == Rotate(w, h, rotation) IN
       prodBuf' = [w |-> b.w, h |-> b.h, tag |-> frameSeq + 1]
  /\ lastFrame' = [lastFrame EXCEPT ![i] = prodBuf']
  /\ prodInst' = i
  /\ prodPc' = "SetSize"
  /\ UNCHANGED <<local_renderer_, uiPc, uiInst, snap, painted,
                 framesSincePaint, coalesced>>
  /\ UNCHANGED <<tabVars, svcVars, uiVars, wndVars, paintPending>>

\* line 1000: SetSize(buffer->width(), buffer->height()), which takes the lock
\* a second time and releases it
OnFrameSetSize ==
  /\ prodPc = "SetSize"
  /\ CanEnter(inst[prodInst], "producer")
  /\ inst' = [inst EXCEPT ![prodInst] =
                Unlock(SetSize(Lock(inst[prodInst], "producer"),
                               prodBuf.w, prodBuf.h))]
  /\ prodPc' = "ConvertLo"
  /\ UNCHANGED <<local_renderer_, uiPc, uiInst, snap, painted, prodInst,
                 prodBuf, frameSeq, lastFrame, framesSincePaint, coalesced>>
  /\ UNCHANGED <<tabVars, svcVars, uiVars, wndVars, paintPending>>

\* lines 1003-1009: libyuv::I420ToARGB writes the buffer, here its first half
OnFrameConvertLo ==
  /\ prodPc = "ConvertLo"
  /\ inst' = [inst EXCEPT ![prodInst].image.lo = prodBuf.tag]
  /\ prodPc' = "ConvertHi"
  /\ UNCHANGED <<local_renderer_, uiPc, uiInst, snap, painted, prodInst,
                 prodBuf, frameSeq, lastFrame, framesSincePaint, coalesced>>
  /\ UNCHANGED <<tabVars, svcVars, uiVars, wndVars, paintPending>>

\* ... and its second half
OnFrameConvertHi ==
  /\ prodPc = "ConvertHi"
  /\ inst' = [inst EXCEPT ![prodInst].image.hi = prodBuf.tag]
  /\ prodPc' = "InvalidateRect"
  /\ UNCHANGED <<local_renderer_, uiPc, uiInst, snap, painted, prodInst,
                 prodBuf, frameSeq, lastFrame, framesSincePaint, coalesced>>
  /\ UNCHANGED <<tabVars, svcVars, uiVars, wndVars, paintPending>>

\* line 1011: InvalidateRect(wnd_, NULL, TRUE)
OnFrameInvalidateRect ==
  /\ prodPc = "InvalidateRect"
  /\ paintPending' = IF hwndAlive THEN InvalidateRect(paintPending)
                     ELSE paintPending
  /\ framesSincePaint' = framesSincePaint + 1
  /\ prodPc' = "return"
  /\ UNCHANGED <<inst, local_renderer_, uiPc, uiInst, snap, painted, prodInst,
                 prodBuf, frameSeq, lastFrame, coalesced>>
  /\ UNCHANGED <<tabVars, svcVars, uiVars, wndVars>>

\* line 1012: the AutoLock goes out of scope
OnFrameReturn ==
  /\ prodPc = "return"
  /\ inst' = [inst EXCEPT ![prodInst] = Unlock(inst[prodInst])]
  /\ prodPc' = "idle"
  /\ prodInst' = 0
  /\ prodBuf' = NoBuf
  /\ UNCHANGED <<local_renderer_, uiPc, uiInst, snap, painted, frameSeq,
                 lastFrame, framesSincePaint, coalesced>>
  /\ UNCHANGED <<tabVars, svcVars, uiVars, wndVars, paintPending>>

(***************************************************************************)
(* OnPaint, on the UI thread: WM_PAINT is dispatched while the update      *)
(* region of the window is not empty.                                      *)
(***************************************************************************)
\* lines 546-553: BeginPaint validates the update region; the branch
OnPaintBegin ==
  /\ UIThreadIdle
  /\ IsWindow
  /\ paintPending > 0
  /\ paintPending' = 0
  /\ coalesced' = framesSincePaint
  /\ framesSincePaint' = 0
  /\ painted' = NoPaint
  /\ snap' = NoSnap
  /\ IF ui_ = STREAMING /\ local_renderer_ # 0
     THEN uiPc' = "paint_lock" /\ uiInst' = local_renderer_
     ELSE uiPc' = "idle" /\ uiInst' = 0
  /\ UNCHANGED <<inst, local_renderer_, prodPc, prodInst, prodBuf, frameSeq,
                 lastFrame>>
  /\ UNCHANGED <<tabVars, svcVars, uiVars, wndVars>>

\* lines 555-558: AutoLock, then width and height are read from bmi()
OnPaintLock ==
  /\ uiPc = "paint_lock"
  /\ CanEnter(inst[uiInst], "ui")
  /\ inst' = [inst EXCEPT ![uiInst] = Lock(inst[uiInst], "ui")]
  /\ snap' = [w |-> inst[uiInst].biWidth, h |-> Abs(inst[uiInst].biHeight)]
  /\ uiPc' = "paint_blit"
  /\ UNCHANGED <<local_renderer_, uiInst, painted, prodPc, prodInst, prodBuf,
                 frameSeq, lastFrame, framesSincePaint, coalesced>>
  /\ UNCHANGED <<tabVars, svcVars, uiVars, wndVars, paintPending>>

StretchDIBitsWrites(r) == [r EXCEPT !.image.lo = 0, !.image.hi = 0]

\* StretchDIBits copies from the image to the device context: the renderer
\* after the call
StretchDIBits(r) == r

\* lines 596-613: image() and bmi() go to StretchDIBits
OnPaintBlit ==
  /\ uiPc = "paint_blit"
  /\ inst' = [inst EXCEPT ![uiInst] = StretchDIBits(inst[uiInst])]
  /\ painted' = [biWidth |-> inst[uiInst].biWidth,
                 biHeight |-> inst[uiInst].biHeight,
                 biSizeImage |-> inst[uiInst].biSizeImage,
                 image |-> inst[uiInst].image]
  /\ uiPc' = "paint_done"
  /\ UNCHANGED <<local_renderer_, uiInst, snap, prodPc, prodInst, prodBuf,
                 frameSeq, lastFrame, framesSincePaint, coalesced>>
  /\ UNCHANGED <<tabVars, svcVars, uiVars, wndVars, paintPending>>

\* line 619: the AutoLock goes out of scope; EndPaint
OnPaintEnd ==
  /\ uiPc = "paint_done"
  /\ inst' = [inst EXCEPT ![uiInst] = Unlock(inst[uiInst])]
  /\ uiPc' = "idle"
  /\ uiInst' = 0
  /\ snap' = NoSnap
  /\ painted' = NoPaint
  /\ coalesced' = 0
  /\ UNCHANGED <<local_renderer_, prodPc, prodInst, prodBuf, frameSeq,
                 lastFrame, framesSincePaint>>
  /\ UNCHANGED <<tabVars, svcVars, uiVars, wndVars, paintPending>>

VideoInit == CtorState(FALSE, FALSE) /\ ServiceCtor(FALSE, FALSE, "window")

VideoNext ==
  \/ Create
  \/ SwitchToConnectUI
  \/ SwitchToStreamingUI
  \/ StartLocalRenderer
  \/ RendererRegister
  \/ StopLocalRenderer
  \/ RendererDestructFirst
  \/ RendererDestructRest
  \/ \E i \in RIds, size \in FrameSizes, rotation \in Rotations :
       OnFrameEnter(i, size[1], size[2], rotation)
  \/ OnFrameSetSize
  \/ OnFrameConvertLo
  \/ OnFrameConvertHi
  \/ OnFrameInvalidateRect
  \/ OnFrameReturn
  \/ OnPaintBegin
  \/ OnPaintLock
  \/ OnPaintBlit
  \/ OnPaintEnd

SpecVideo == VideoInit /\ [][VideoNext]_vars

\* OnFrame past its first AutoLock, lines 1000-1012
OnFrameSteps ==
  \/ OnFrameSetSize
  \/ OnFrameConvertLo
  \/ OnFrameConvertHi
  \/ OnFrameInvalidateRect
  \/ OnFrameReturn

\* the frames of the lock check: the lock's path through OnFrame and SetSize
\* does not branch on the dimensions, so one square and one oblong size do
LockFrameSizes == {<<1, 1>>, <<1, 2>>}

\* the renderers, the frames and the paints, as in VideoNext
LockNext ==
  \/ Create
  \/ SwitchToConnectUI
  \/ SwitchToStreamingUI
  \/ StartLocalRenderer
  \/ RendererRegister
  \/ StopLocalRenderer
  \/ RendererDestructFirst
  \/ RendererDestructRest
  \/ \E i \in RIds, size \in LockFrameSizes, rotation \in Rotations :
       OnFrameEnter(i, size[1], size[2], rotation)
  \/ OnFrameSetSize
  \/ OnFrameConvertLo
  \/ OnFrameConvertHi
  \/ OnFrameInvalidateRect
  \/ OnFrameReturn
  \/ OnPaintBegin
  \/ OnPaintLock
  \/ OnPaintBlit
  \/ OnPaintEnd

\* the thread that delivers the frames is scheduled: a statement of OnFrame
\* that can run does run
SpecLock == VideoInit /\ [][LockNext]_vars /\ WF_vars(OnFrameSteps)

(***************************************************************************)
(* HandleTabbing.  The child controls are siblings in the order in which   *)
(* CreateChildWindows creates them ("in tab order"); GetWindow walks that  *)
(* order.  The main window is shown (has_no_UI_ is off), so a control is   *)
(* visible when it is shown.                                               *)
(***************************************************************************)
ChildWindows == <<"label1_", "edit1_", "label2_", "edit2_", "button_",
                  "listbox_">>

\* the controls created with WS_TABSTOP
TabStops == {"edit1_", "edit2_", "button_"}

IndexOf(wnd) == CHOOSE i \in 1..Len(ChildWindows) : ChildWindows[i] = wnd

\* ::GetWindow(wnd, cmd) among the child controls; "none" is NULL
GetWindow(wnd, cmd) ==
  IF wnd = "none" THEN "none"
  ELSE IF cmd = "GW_HWNDFIRST" THEN ChildWindows[1]
  ELSE IF cmd = "GW_HWNDLAST" THEN ChildWindows[Len(ChildWindows)]
  ELSE IF cmd = "GW_HWNDNEXT"
  THEN IF IndexOf(wnd) < Len(ChildWindows)
       THEN ChildWindows[IndexOf(wnd) + 1] ELSE "none"
  ELSE IF IndexOf(wnd) > 1 THEN ChildWindows[IndexOf(wnd) - 1] ELSE "none"

IsWindowVisible(wnd, vis) == wnd \in vis

HasTabStopAlways(wnd) == wnd # "none"

\* GetWindowLong(next, GWL_STYLE) & WS_TABSTOP
HasTabStop(wnd) == wnd \in TabStops

\* lines 918-919
NextCmd(sh) == IF sh THEN "GW_HWNDPREV" ELSE "GW_HWNDNEXT"
LoopAroundCmd(sh) == IF sh THEN "GW_HWNDLAST" ELSE "GW_HWNDFIRST"

\* one turn of the do-while loop, lines 924-939: done when it breaks, and the
\* value of next
TabIteration(f, sh, vis) ==
  LET next == GetWindow(f, NextCmd(sh))
      around == GetWindow(f, LoopAroundCmd(sh))
  IN  IF IsWindowVisible(next, vis) /\ HasTabStop(next)
      THEN [done |-> TRUE, next |-> next]
      ELSE IF next = "none"
      THEN [done |-> IsWindowVisible(around, vis) /\ HasTabStop(around),
            next |-> around]
      ELSE [done |-> FALSE, next |-> next]

\* the window system gives the focus to a control the user clicks on
UserSetFocus(wnd) ==
  /\ UIThreadIdle
  /\ IsWindow
  /\ wnd \in visible \cap (TabStops \cup {"listbox_"})
  /\ focus' = wnd
  /\ lastCall' = NoCall
  /\ lastOp' = Op("SetFocus")
  /\ UNCHANGED <<ui_, wnd_, callback_, auto_connect_, auto_call_, hwndAlive,
                 visible, listbox, cursel, edit1, edit2, posted, threadMsgs,
                 fault>>
  /\ UNCHANGED <<tabVars, svcVars, wndVars, vidVars, paintPending>>

\* PreTranslateMessage, WM_CHAR with VK_TAB: HandleTabbing, lines 917-920
HandleTabbingBegin(sh) ==
  /\ UIThreadIdle
  /\ IsWindow
  /\ shift' = sh
  /\ tabFocus' = focus
  /\ tabStart' = focus
  /\ uiPc' = "tabbing"
  /\ lastCall' = NoCall
  /\ lastOp' = Op("PreTranslateMessage")
  /\ UNCHANGED <<ui_, wnd_, callback_, auto_connect_, auto_call_, hwndAlive,
                 visible, listbox, cursel, focus, edit1, edit2, posted,
                 threadMsgs, fault>>
  /\ UNCHANGED <<inst, local_renderer_, uiInst, snap, painted, prodPc,
                 prodInst, prodBuf, frameSeq, lastFrame, framesSincePaint,
                 coalesced>>
  /\ UNCHANGED <<svcVars, wndVars, paintPending>>

\* one turn of the loop; after the break, line 943: ::SetFocus(next)
HandleTabbingLoop ==
  /\ fault = "none"
  /\ uiPc = "tabbing"
  /\ LET it == TabIteration(tabFocus, shift, visible) IN
       IF it.done
       THEN /\ focus' = it.next
            /\ tabFocus' = "none"
            /\ uiPc' = "idle"
            /\ lastOp' = Op("HandleTabbing")
       ELSE /\ tabFocus' = it.next
            /\ UNCHANGED <<focus, uiPc, lastOp>>
  /\ UNCHANGED <<ui_, wnd_, callback_, auto_connect_, auto_call_, hwndAlive,
                 visible, listbox, cursel, edit1, edit2, posted, threadMsgs,
                 lastCall, fault>>
  /\ UNCHANGED <<inst, local_renderer_, uiInst, snap, painted, prodPc,
                 prodInst, prodBuf, frameSeq, lastFrame, framesSincePaint,
                 coalesced>>
  /\ UNCHANGED <<shift, tabStart, svcVars, wndVars, paintPending>>

TabInit == CtorState(FALSE, FALSE) /\ ServiceCtor(FALSE, FALSE, "window")

TabNext ==
  \/ Create
  \/ SwitchToConnectUI
  \/ \E peers \in PeerSets : SwitchToPeerList(peers)
  \/ SwitchToStreamingUI
  \/ \E wnd \in Controls : UserSetFocus(wnd)
  \/ \E sh \in BOOLEAN : HandleTabbingBegin(sh)
  \/ HandleTabbingLoop

SpecTab == TabInit /\ [][TabNext]_vars

\* the user interface thread stays in the do-while loop of lines 922-941
\* until it breaks: a turn that can be taken is taken
SpecTabFair == TabInit /\ [][TabNext]_vars /\ WF_vars(HandleTabbingLoop)

(***************************************************************************)
(* The system service: the service part of Create (lines 129-201),         *)
(* InstallService and RemoveService.  Every call into the service control  *)
(* manager succeeds or fails; the status of the service is what the        *)
(* manager reports, which the program does not control.                    *)
(***************************************************************************)
ServiceStates == {"SERVICE_STOP_PENDING", "SERVICE_STOPPED", "SERVICE_RUNNING"}

\* the failure paths: if (schSCManager) { CloseServiceHandle(schSCManager);
\* schSCManager = NULL; } if (schService) { ... }
CloseServiceOnly(h) == [h EXCEPT !.schService = FALSE]

CloseHandles(h) == [schSCManager |-> FALSE, schService |-> FALSE]

ServiceModeIgnoresHeadless(no_ui, headless, systemService) ==
  no_ui /\ systemService

\* line 169: has_no_UI_ && headless_ && systemService_
ServiceMode(no_ui, headless, systemService) ==
  no_ui /\ headless /\ systemService

\* OpenService(schSCManager, serviceName_, SERVICE_QUERY_STATUS): the handle
\* is NULL when no service of that name is registered
QueryExisting(present) == IF present THEN "present" ELSE "absent"

DeleteOutcomeAlwaysTrue(deleted) == "true"

\* lines 430-447: the return value after DeleteService
DeleteOutcome(deleted) == IF deleted THEN "true" ELSE "false"

\* lines 129-163: headless_ is has_no_UI_ unless serverConfig.json sets it,
\* systemService_ is false unless it sets it
CreateReadConfig(headless, systemService) ==
  /\ svcPc = "start"
  /\ headless_' = headless
  /\ systemService_' = systemService
  /\ svcPc' = "OpenSCManager"
  /\ UNCHANGED <<has_no_UI_, registered, createH, installH, removeH,
                 installRet, removeRet, installFail, removeFail, deleteRet,
                 dwCurrentState, polls, installCalls, removeCalls, queried>>
  /\ UNCHANGED <<uiVars, wndVars, vidVars, paintPending, tabVars>>

\* lines 165-166
CreateOpenSCManager(ok) ==
  /\ svcPc = "OpenSCManager"
  /\ createH' = [createH EXCEPT !.schSCManager = ok]
  /\ svcPc' = IF ok THEN "ServiceMode" ELSE "window"
  /\ UNCHANGED <<has_no_UI_, headless_, systemService_, registered, installH,
                 removeH, installRet, removeRet, installFail, removeFail,
                 deleteRet, dwCurrentState, polls, installCalls, removeCalls,
                 queried>>
  /\ UNCHANGED <<uiVars, wndVars, vidVars, paintPending, tabVars>>

\* lines 169-176: in service mode, InstallService unless the service is there
CreateServiceMode ==
  /\ svcPc = "ServiceMode"
  /\ IF ServiceMode(has_no_UI_, headless_, systemService_)
     THEN /\ queried' = QueryExisting(registered)
          /\ createH' = [createH EXCEPT !.schService = registered]
          /\ IF queried' = "absent"
             THEN installCalls' = installCalls + 1
                  /\ svcPc' = "GetModuleFileName"
             ELSE installCalls' = installCalls /\ svcPc' = "Run"
     ELSE /\ svcPc' = "NotService"
          /\ UNCHANGED <<queried, createH, installCalls>>
  /\ UNCHANGED <<has_no_UI_, headless_, systemService_, registered, installH,
                 removeH, installRet, removeRet, installFail, removeFail,
                 deleteRet, dwCurrentState, polls, removeCalls>>
  /\ UNCHANGED <<uiVars, wndVars, vidVars, paintPending, tabVars>>

\* InstallService, lines 284-298: GetModuleFileName
InstallGetModuleFileName(ok) ==
  /\ svcPc = "GetModuleFileName"
  /\ IF ok
     THEN svcPc' = "InstallOpenSCManager"
          /\ UNCHANGED <<installH, installRet, installFail>>
     ELSE /\ installH' = CloseHandles(installH)
          /\ installRet' = "false"
          /\ installFail' = "GetModuleFileName"
          /\ svcPc' = "Run"
  /\ UNCHANGED <<has_no_UI_, headless_, systemService_, registered, createH,
                 removeH, removeRet, removeFail, deleteRet, dwCurrentState,
                 polls, installCalls, removeCalls, queried>>
  /\ UNCHANGED <<uiVars, wndVars, vidVars, paintPending, tabVars>>

\* InstallService, lines 301-317: OpenSCManager
InstallOpenSCManager(ok) ==
  /\ svcPc = "InstallOpenSCManager"
  /\ IF ok
     THEN /\ installH' = [installH EXCEPT !.schSCManager = TRUE]
          /\ svcPc' = "CreateService"
          /\ UNCHANGED <<installRet, installFail>>
     ELSE /\ installH' = CloseHandles(installH)
          /\ installRet' = "false"
          /\ installFail' = "OpenSCManager"
          /\ svcPc' = "Run"
  /\ UNCHANGED <<has_no_UI_, headless_, systemService_, registered, createH,
                 removeH, removeRet, removeFail, deleteRet, dwCurrentState,
                 polls, installCalls, removeCalls, queried>>
  /\ UNCHANGED <<uiVars, wndVars, vidVars, paintPending, tabVars>>

\* InstallService, lines 326-358: CreateService; the success path returns with
\* both handles open
InstallCreateService(ok) ==
  /\ svcPc = "CreateService"
  /\ IF ok
     THEN /\ installH' = [installH EXCEPT !.schService = TRUE]
          /\ registered' = TRUE
          /\ installRet' = "true"
          /\ UNCHANGED installFail
     ELSE /\ installH' = CloseHandles(installH)
          /\ installRet' = "false"
          /\ installFail' = "CreateService"
          /\ UNCHANGED registered
  /\ svcPc' = "Run"
  /\ UNCHANGED <<has_no_UI_, headless_, systemService_, createH, removeH,
                 removeRet, removeFail, deleteRet, dwCurrentState, polls,
                 installCalls, removeCalls, queried>>
  /\ UNCHANGED <<uiVars, wndVars, vidVars, paintPending, tabVars>>

\* lines 177-185: CloseServiceHandle(schService); CServiceBase::Run returns
CreateRunService ==
  /\ svcPc = "Run"
  /\ createH' = [createH EXCEPT !.schService = FALSE]
  /\ svcPc' = "NotService"
  /\ UNCHANGED <<has_no_UI_, headless_, systemService_, registered, installH,
                 removeH, installRet, removeRet, installFail, removeFail,
                 deleteRet, dwCurrentState, polls, installCalls, removeCalls,
                 queried>>
  /\ UNCHANGED <<uiVars, wndVars, vidVars, paintPending, tabVars>>

\* lines 189-195: not a system service, RemoveService if the service is there
CreateNotService ==
  /\ svcPc = "NotService"
  /\ IF ~systemService_
     THEN /\ queried' = QueryExisting(registered)
          /\ createH' = [createH EXCEPT !.schService = registered]
          /\ IF queried' = "present"
             THEN removeCalls' = removeCalls + 1
                  /\ svcPc' = "RemoveOpenSCManager"
             ELSE removeCalls' = removeCalls /\ svcPc' = "CloseService"
     ELSE /\ svcPc' = "CloseSCManager"
          /\ UNCHANGED <<queried, createH, removeCalls>>
  /\ UNCHANGED <<has_no_UI_, headless_, systemService_, registered, installH,
                 removeH, installRet, removeRet, installFail, removeFail,
                 deleteRet, dwCurrentState, polls, installCalls>>
  /\ UNCHANGED <<uiVars, wndVars, vidVars, paintPending, tabVars>>

\* RemoveService, lines 367-382: OpenSCManager
RemoveOpenSCManager(ok) ==
  /\ svcPc = "RemoveOpenSCManager"
  /\ IF ok
     THEN /\ removeH' = [removeH EXCEPT !.schSCManager = TRUE]
          /\ svcPc' = "OpenService"
          /\ UNCHANGED <<removeRet, removeFail>>
     ELSE /\ removeH' = CloseHandles(removeH)
          /\ removeRet' = "false"
          /\ removeFail' = "OpenSCManager"
          /\ svcPc' = "CloseService"
  /\ UNCHANGED <<has_no_UI_, headless_, systemService_, registered, createH,
                 installH, installRet, installFail, deleteRet, dwCurrentState,
                 polls, installCalls, removeCalls, queried>>
  /\ UNCHANGED <<uiVars, wndVars, vidVars, paintPending, tabVars>>

\* RemoveService, lines 385-401: OpenService with SERVICE_STOP |
\* SERVICE_QUERY_STATUS | DELETE, which can be refused for a service that is
\* registered
RemoveOpenService(ok) ==
  /\ svcPc = "OpenService"
  /\ ok => registered
  /\ IF ok
     THEN /\ removeH' = [removeH EXCEPT !.schService = TRUE]
          /\ svcPc' = "ControlService"
          /\ UNCHANGED <<removeRet, removeFail>>
     ELSE /\ removeH' = CloseHandles(removeH)
          /\ removeRet' = "false"
          /\ removeFail' = "OpenService"
          /\ svcPc' = "CloseService"
  /\ UNCHANGED <<has_no_UI_, headless_, systemService_, registered, createH,
                 installH, installRet, installFail, deleteRet, dwCurrentState,
                 polls, installCalls, removeCalls, queried>>
  /\ UNCHANGED <<uiVars, wndVars, vidVars, paintPending, tabVars>>

\* RemoveService, lines 404-407: ControlService(SERVICE_CONTROL_STOP) fills
\* ssSvcStatus when it succeeds; Sleep(1000)
RemoveControlService(ok, state) ==
  /\ svcPc = "ControlService"
  /\ IF ok
     THEN dwCurrentState' = state /\ svcPc' = "QueryServiceStatus"
     ELSE UNCHANGED dwCurrentState /\ svcPc' = "DeleteService"
  /\ UNCHANGED <<has_no_UI_, headless_, systemService_, registered, createH,
                 installH, removeH, installRet, removeRet, installFail,
                 removeFail, deleteRet, polls, installCalls, removeCalls,
                 queried>>
  /\ UNCHANGED <<uiVars, wndVars, vidVars, paintPending, tabVars>>

\* RemoveService, lines 409-417: the loop goes on while QueryServiceStatus
\* succeeds and reports SERVICE_STOP_PENDING
RemoveQueryServiceStatus(ok, state) ==
  /\ svcPc = "QueryServiceStatus"
  /\ IF ok
     THEN /\ dwCurrentState' = state
          /\ svcPc' = IF state = "SERVICE_STOP_PENDING" THEN "Sleep"
                      ELSE "DeleteService"
     ELSE UNCHANGED dwCurrentState /\ svcPc' = "DeleteService"
  /\ UNCHANGED <<has_no_UI_, headless_, systemService_, registered, createH,
                 installH, removeH, installRet, removeRet, installFail,
                 removeFail, deleteRet, polls, installCalls, removeCalls,
                 queried>>
  /\ UNCHANGED <<uiVars, wndVars, vidVars, paintPending, tabVars>>

\* RemoveService, lines 413-414: Sleep(1000), and the next turn of the loop;
\* the number of polls is counted up to MaxPolls
RemoveSleep ==
  /\ svcPc = "Sleep"
  /\ polls' = IF polls < MaxPolls THEN polls + 1 ELSE polls
  /\ svcPc' = "QueryServiceStatus"
  /\ UNCHANGED <<has_no_UI_, headless_, systemService_, registered, createH,
                 installH, removeH, installRet, removeRet, installFail,
                 removeFail, deleteRet, dwCurrentState, installCalls,
                 removeCalls, queried>>
  /\ UNCHANGED <<uiVars, wndVars, vidVars, paintPending, tabVars>>

\* RemoveService, lines 430-447: DeleteService; the success path returns with
\* both handles open
RemoveDeleteService(ok) ==
  /\ svcPc = "DeleteService"
  /\ deleteRet' = IF ok THEN "ok" ELSE "failed"
  /\ removeRet' = DeleteOutcome(ok)
  /\ IF ok
     THEN registered' = FALSE /\ UNCHANGED <<removeH, removeFail>>
     ELSE /\ removeH' = CloseHandles(removeH)
          /\ removeFail' = "DeleteService"
          /\ UNCHANGED registered
  /\ svcPc' = "CloseService"
  /\ UNCHANGED <<has_no_UI_, headless_, systemService_, createH, installH,
                 installRet, installFail, dwCurrentState, polls, installCalls,
                 removeCalls, queried>>
  /\ UNCHANGED <<uiVars, wndVars, vidVars, paintPending, tabVars>>

\* lines 196-197: CloseServiceHandle(schService)
CreateCloseService ==
  /\ svcPc = "CloseService"
  /\ createH' = [createH EXCEPT !.schService = FALSE]
  /\ svcPc' = "CloseSCManager"
  /\ UNCHANGED <<has_no_UI_, headless_, systemService_, registered, installH,
                 removeH, installRet, removeRet, installFail, removeFail,
                 deleteRet, dwCurrentState, polls, installCalls, removeCalls,
                 queried>>
  /\ UNCHANGED <<uiVars, wndVars, vidVars, paintPending, tabVars>>

\* lines 199-200: CloseServiceHandle(schSCManager); the window part follows
CreateCloseSCManager ==
  /\ svcPc = "CloseSCManager"
  /\ createH' = [createH EXCEPT !.schSCManager = FALSE]
  /\ svcPc' = "window"
  /\ UNCHANGED <<has_no_UI_, headless_, systemService_, registered, installH,
                 removeH, installRet, removeRet, installFail, removeFail,
                 deleteRet, dwCurrentState, polls, installCalls, removeCalls,
                 queried>>
  /\ UNCHANGED <<uiVars, wndVars, vidVars, paintPending, tabVars>>

ServiceInit ==
  /\ CtorState(FALSE, FALSE)
  /\ \E no_ui \in BOOLEAN, present \in BOOLEAN :
       ServiceCtor(no_ui, present, "start")

ServiceNext ==
  \/ \E headless \in BOOLEAN, systemService \in BOOLEAN :
       CreateReadConfig(headless, systemService)
  \/ \E ok \in BOOLEAN : CreateOpenSCManager(ok)
  \/ CreateServiceMode
  \/ \E ok \in BOOLEAN : InstallGetModuleFileName(ok)
  \/ \E ok \in BOOLEAN : InstallOpenSCManager(ok)
  \/ \E ok \in BOOLEAN : InstallCreateService(ok)
  \/ CreateRunService
  \/ CreateNotService
  \/ \E ok \in BOOLEAN : RemoveOpenSCManager(ok)
  \/ \E ok \in BOOLEAN : RemoveOpenService(ok)
  \/ \E ok \in BOOLEAN, state \in ServiceStates : RemoveControlService(ok, state)
  \/ \E ok \in BOOLEAN, state \in ServiceStates :
       RemoveQueryServiceStatus(ok, state)
  \/ RemoveSleep
  \/ \E ok \in BOOLEAN : RemoveDeleteService(ok)
  \/ CreateCloseService
  \/ CreateCloseSCManager
  \/ (svcPc = "window" /\ Create)

\* the thread that runs Create goes on as long as it has a next step
SpecService == ServiceInit /\ [][ServiceNext]_vars /\ WF_vars(ServiceNext)

(***************************************************************************)
(* Properties.                                                             *)
(***************************************************************************)

\* C1: when WM_NCDESTROY was observed in a nested dispatch, OnDestroyed has
\* not been called as long as an activation of WndProc is on the stack, and
\* it has been called exactly once when the outermost activation has returned.
C1_DeferredDestroyed ==
  nestedDestroy => IF stack = <<>> THEN onDestroyed = 1 ELSE onDestroyed = 0

C1_Witness == nestedDestroy /\ stack = <<>> /\ onDestroyed = 1 /\ wnd_ = NULL

\* the controls that belong to a UI state
ControlsOf(ui) ==
  IF ui = CONNECT_TO_SERVER THEN ConnectControls
  ELSE IF ui = LIST_PEERS THEN {"listbox_"}
  ELSE {}

\* C7: while the window exists, the visible controls are those of the
\* current UI state: the connect form exactly in CONNECT_TO_SERVER, the list
\* exactly in LIST_PEERS, none in STREAMING.
C7_VisibilityByState == IsWindow => visible = ControlsOf(ui_)

C7_Witness ==
  /\ ui_ = STREAMING /\ lastOp.op = "WM_SIZE" /\ visible = {}
  /\ Len(listbox) > 1

ListView == <<ui_, visible, listbox, cursel, focus>>

NoDuplicates(items) ==
  \A i, j \in 1..Len(items) : items[i] = items[j] => i = j

\* C8: each of the three transitions is enabled in every UI state of an
\* existing window (the queue of posted messages permitting), and
\* SwitchToPeerList called right after SwitchToPeerList with the same peers
\* leaves the UI state, the visible controls, the list, its selection and the
\* focus as they are, the list holding no entry twice.
C8_TotalIdempotent ==
  /\ [](IsWindow /\ UIThreadIdle /\ Len(posted) < MaxPosted
          => /\ ENABLED SwitchToConnectUI
             /\ ENABLED SwitchToStreamingUI
             /\ \A peers \in PeerSets : ENABLED SwitchToPeerList(peers))
  /\ [][\A peers \in PeerSets :
          (lastOp.op = "SwitchToPeerList" /\ lastOp.peers = peers
           /\ SwitchToPeerList(peers))
            => (ListView' = ListView /\ NoDuplicates(listbox'))]_vars

C8_Witness ==
  /\ lastOp.op = "SwitchToPeerList" /\ lastOp.again /\ lastOp.peers = PeerIds
  /\ Len(listbox) = MaxPeers + 1

\* the number a port text stands for, as atoi reads it
PortOfText(text) ==
  IF text = <<"8", "8", "8", "8">> THEN 8888
  ELSE IF text = <<" ", "8", "0", "x">> THEN 80
  ELSE 0

\* C9: with an observer registered, escape calls DisconnectFromCurrentPeer in
\* STREAMING and DisconnectFromServer in the other states; enter calls
\* StartLogin with the texts of the edit controls in CONNECT_TO_SERVER, and in
\* LIST_PEERS ConnectToPeer with the identifier of the selected entry, or
\* nothing when no entry or the header row is selected.
C9_GestureRouting ==
  (callback_ /\ IsWindow) =>
    /\ lastOp.op = "VK_ESCAPE" =>
         lastCall = Call(IF ui_ = STREAMING THEN "DisconnectFromCurrentPeer"
                         ELSE "DisconnectFromServer")
    /\ (lastOp.op = "VK_RETURN" /\ ui_ = CONNECT_TO_SERVER) =>
         lastCall = StartLoginCall(edit1, PortOfText(edit2))
    /\ (lastOp.op = "VK_RETURN" /\ ui_ = LIST_PEERS) =>
         IF cursel \in 1..(Len(listbox) - 1)
         THEN lastCall = ConnectToPeerCall(listbox[cursel + 1].data)
         ELSE lastCall = NoCall

C9_Witness ==
  /\ callback_ /\ lastOp.op = "VK_RETURN" /\ ui_ = LIST_PEERS
  /\ lastCall = ConnectToPeerCall(MaxPeers)

\* C10: without a registered observer no handler calls it and none reaches a
\* fault.
C10_NoObserverTolerated ==
  /\ fault = "none"
  /\ ~callback_ => lastCall = NoCall

\* the declared dimensions of a renderer agree with its buffer
DimensionsAgree(r) ==
  /\ r.biSizeImage = r.biWidth * Abs(r.biHeight) * 4
  /\ r.image.len = r.biSizeImage

\* the UI thread holds the lock of the renderer it paints
PaintHoldsLock == uiPc \in {"paint_blit", "paint_done"}

\* C2: whenever the painting UI thread holds the lock of a renderer, the
\* declared biWidth, |biHeight| and biSizeImage agree with the length of the
\* stored image buffer, also before the first frame.
C2_NoTornState == PaintHoldsLock => DimensionsAgree(inst[uiInst])

\* C3: when OnFrame has returned, the renderer holds the width and height of
\* the most recent frame after rotation, and biSizeImage and the buffer length
\* are width * height * 4 of that frame.
C3_SizeOfLatestFrame ==
  \A i \in RIds :
    (inst[i].st = "live" /\ lastFrame[i].tag # 0 /\ prodInst # i) =>
      /\ inst[i].biWidth = lastFrame[i].w
      /\ Abs(inst[i].biHeight) = lastFrame[i].h
      /\ inst[i].biSizeImage = lastFrame[i].w * lastFrame[i].h * 4
      /\ inst[i].image.len = lastFrame[i].w * lastFrame[i].h * 4

\* a second frame, of other dimensions than the first, has been stored
C3_Witness ==
  \E i \in RIds :
    /\ inst[i].st = "live" /\ prodPc = "idle" /\ lastFrame[i].tag = 2
    /\ inst[i].biWidth = 1 /\ inst[i].biHeight = 0 - MaxDim
    /\ inst[i].image.len = MaxDim * 4 /\ inst[i].image.hi = 2

\* C4: OnFrame and the paint never are in their critical sections on the same
\* renderer at once; what the paint reads under the lock is one whole buffer
\* (both halves written by the same frame), of the length the dimensions
\* declare, and the dimensions do not change while it holds the lock.
C4_CriticalSectionsExclude ==
  PaintHoldsLock =>
    LET r == inst[uiInst] IN
      /\ prodInst # uiInst
      /\ r.lockOwner = "ui"
      /\ r.image.lo = r.image.hi
      /\ r.image.alloc => DimensionsAgree(r)
      /\ snap = [w |-> r.biWidth, h |-> Abs(r.biHeight)]
      /\ uiPc = "paint_done" =>
           painted = [biWidth |-> r.biWidth, biHeight |-> r.biHeight,
                      biSizeImage |-> r.biSizeImage, image |-> r.image]

\* a paint waits for the lock while OnFrame has written half of the buffer
C4_Witness ==
  /\ uiPc = "paint_lock" /\ prodPc = "ConvertHi" /\ prodInst = uiInst
  /\ inst[uiInst].image.lo # inst[uiInst].image.hi
  /\ inst[uiInst].lockOwner = "producer"

\* C5: at most one redraw request is outstanding; it is outstanding when a
\* frame has been stored since the last paint; and a paint that draws the
\* renderer draws the buffer written by its most recent OnFrame.
C5_CoalescedLatestFrame ==
  /\ paintPending \in {0, 1}
  /\ (framesSincePaint >= 1 /\ IsWindow) => paintPending = 1
  /\ (uiPc = "paint_done" /\ painted.image.alloc) =>
       /\ painted.image.lo = lastFrame[uiInst].tag
       /\ painted.image.hi = lastFrame[uiInst].tag

\* one paint follows two frames and draws the second
C5_Witness ==
  /\ uiPc = "paint_done" /\ coalesced = 2 /\ painted.image.lo = 2
  /\ painted.image.hi = 2 /\ paintPending = 0

\* C6: a registered sink has its lock and its dimensions initialised; a
\* renderer in destruction is no sink any more while its lock and buffer still
\* exist; OnFrame runs only on a renderer that is constructed and whose
\* destruction has not begun.
C6_SinkLifetime ==
  /\ \A i \in RIds :
       /\ inst[i].sink =>
            /\ inst[i].st = "live" /\ inst[i].lockInit
            /\ inst[i].biSizeImage = inst[i].biWidth * Abs(inst[i].biHeight) * 4
            /\ lastFrame[i].tag = 0 =>
                 (inst[i].biWidth = 1 /\ inst[i].biHeight = 0 - 1)
       /\ inst[i].st = "dtor" => (~inst[i].sink /\ inst[i].lockInit)
  /\ prodPc # "idle" =>
       (inst[prodInst].st = "live" /\ inst[prodInst].lockInit)

\* a renderer that has stored a frame is in destruction while the producer
\* delivers a frame to its successor
C6_Witness ==
  \E i \in RIds :
    /\ inst[i].st = "dtor" /\ inst[i].image.alloc
    /\ prodPc # "idle" /\ prodInst # i

\* the visible controls that have a tab stop, by their place in the order
VisibleTabStops(vis) ==
  {i \in 1..Len(ChildWindows) : ChildWindows[i] \in vis \cap TabStops}

Least(S) == CHOOSE i \in S : \A j \in S : i <= j
Greatest(S) == CHOOSE i \in S : \A j \in S : i >= j

\* the visible tab stop that follows start (precedes it, with shift) in the
\* order of the controls, going round at the end
TabTarget(start, sh, vis) ==
  LET stops == VisibleTabStops(vis)
      after == {i \in stops : i > IndexOf(start)}
      before == {i \in stops : i < IndexOf(start)}
  IN  IF sh
      THEN ChildWindows[IF before # {} THEN Greatest(before)
                        ELSE Greatest(stops)]
      ELSE ChildWindows[IF after # {} THEN Least(after) ELSE Least(stops)]

\* C11: when HandleTabbing returns, the focus is on the next visible control
\* with a tab stop after the one that had it (the previous one with shift),
\* hidden controls and controls without tab stop skipped: from the last one
\* it goes to the first, with shift from the first one to the last.
C11_TabCycle ==
  [][(uiPc = "tabbing" /\ uiPc' = "idle") =>
       focus' = TabTarget(tabStart, shift, visible)]_vars

\* a tab with the focus on the button has moved it to the address edit
C11_Witness ==
  /\ lastOp.op = "HandleTabbing" /\ uiPc = "idle"
  /\ tabStart = "button_" /\ ~shift /\ focus = "edit1_"
  /\ VisibleTabStops(visible) = {2, 4, 5}

\* RemoveService has returned
RemoveReturned == removeRet # "none"

\* C12 as stated: RemoveService returns true exactly when DeleteService
\* succeeded, and it returns false only if DeleteService itself failed,
\* whatever the outcome of opening the database and the service, of the stop
\* control and of the polling.
C12_DeleteAloneDecides ==
  RemoveReturned =>
    /\ removeRet = "true" <=> deleteRet = "ok"
    /\ removeRet = "false" => deleteRet = "failed"

\* C12, amended: RemoveService returns true exactly when DeleteService
\* succeeded; it returns false when DeleteService failed, and also, without
\* calling DeleteService, when the database or the service could not be
\* opened.  The stop control and the polling have no part in the result.
C12_RemoveResult ==
  RemoveReturned =>
    /\ removeRet = "true" <=> deleteRet = "ok"
    /\ removeRet = "false" <=>
         \/ deleteRet = "failed"
         \/ removeFail \in {"OpenSCManager", "OpenService"}
    /\ removeFail \in {"OpenSCManager", "OpenService"} <=> deleteRet = "none"

\* the service was in stop pending for some polls and then stopped, and
\* RemoveService has returned true
C12_Witness ==
  /\ removeRet = "true" /\ deleteRet = "ok" /\ polls >= 1
  /\ dwCurrentState = "SERVICE_STOPPED"

\* C13: once RemoveService has opened the service, it comes to call
\* DeleteService and to return, whatever becomes of the stop.
C13_RemoveTerminates ==
  (svcPc = "ControlService") ~> (deleteRet # "none" /\ RemoveReturned)

\* C19: when InstallService has returned false (GetModuleFileName,
\* OpenSCManager or CreateService failed), none of its handles is open.
C19_InstallReleasesHandles ==
  /\ installRet = "false" <=> installFail # "none"
  /\ installRet = "false" => installH = NoHandles

\* CreateService failed after the database was opened
C19_Witness ==
  /\ installRet = "false" /\ installFail = "CreateService"
  /\ installH = NoHandles /\ ~registered

\* C20: Create calls InstallService only in service mode and when its query
\* found no service of the name; it calls RemoveService only when
\* systemService_ is off and its query found the service; it never calls both.
C20_StartupDecision ==
  /\ installCalls >= 1 =>
       /\ has_no_UI_ /\ headless_ /\ systemService_ /\ queried = "absent"
       /\ installRet = "none" => ~registered
  /\ removeCalls >= 1 =>
       /\ ~systemService_ /\ queried = "present"
       /\ deleteRet # "ok" => registered
  /\ installCalls + removeCalls <= 1

\* Create has installed the service and gone on to create the window
C20_Witness ==
  /\ wnd_ = HWND /\ installCalls = 1 /\ removeCalls = 0
  /\ installRet = "true" /\ registered

\* C14: after a WM_NCDESTROY observed in a nested dispatch, no activation of
\* WndProc still on the stack hands the destroyed window to the window system
\* (DefWindowProc for its own unhandled message), and nested_msg_ is NULL
\* again when the outermost activation has returned.
C14_NoUseAfterNestedDestroy ==
  /\ ~usedDestroyed
  /\ stack = <<>> => nested_msg_ = 0

\* the stored frame of a renderer: the buffer and the dimensions
Stored(r) == [image |-> r.image, biWidth |-> r.biWidth,
              biHeight |-> r.biHeight, biSizeImage |-> r.biSizeImage]

\* OnFrame passes its call of SetSize
SetSizeStep == prodPc = "SetSize" /\ prodPc' = "ConvertLo"

\* C15: the SetSize of an OnFrame whose rotated width and height are the
\* stored ones leaves the buffer as it is, and the SetSize of an OnFrame with
\* other dimensions (or with no buffer yet) allocates one new buffer.  Stated
\* for the frames that have pixels.
C15_ReallocOnlyOnChange ==
  [][(SetSizeStep /\ prodBuf.w > 0 /\ prodBuf.h > 0) =>
       LET r == inst[prodInst]
           q == inst'[prodInst]
       IN  IF /\ r.image.alloc
              /\ prodBuf.w = r.biWidth /\ prodBuf.h = Abs(r.biHeight)
           THEN q.image = r.image
           ELSE q.image = [alloc |-> TRUE, len |-> prodBuf.w * prodBuf.h * 4,
                           lo |-> 0, hi |-> 0]]_vars

\* C16: an OnFrame with a frame of width or height 0 leaves the stored
\* dimensions and the buffer of the last accepted frame as they are and
\* allocates nothing.
C16_ZeroFrameIgnored ==
  [][(SetSizeStep /\ (prodBuf.w = 0 \/ prodBuf.h = 0)) =>
       Stored(inst'[prodInst]) = Stored(inst[prodInst])]_vars

\* C17: a step of the paint leaves the buffer, the width, the height and the
\* buffer size of the renderer as they are; the halves of a buffer are
\* written only by the conversion steps of OnFrame, each with the frame that
\* OnFrame was given, and both are written when OnFrame returns.
C17_PaintReadOnly ==
  [][/\ (uiPc \in {"paint_lock", "paint_blit", "paint_done"} /\ uiPc' # uiPc)
          => Stored(inst'[uiInst]) = Stored(inst[uiInst])
     /\ \A i \in RIds :
          /\ (inst'[i].image.lo # inst[i].image.lo /\ inst'[i].image.lo # 0)
               => (prodInst = i /\ prodPc = "ConvertLo"
                   /\ inst'[i].image.lo = prodBuf.tag)
          /\ (inst'[i].image.hi # inst[i].image.hi /\ inst'[i].image.hi # 0)
               => (prodInst = i /\ prodPc = "ConvertHi"
                   /\ inst'[i].image.hi = prodBuf.tag)
     /\ prodPc' = "return" =>
          /\ inst'[prodInst'].image.lo = prodBuf'.tag
          /\ inst'[prodInst'].image.hi = prodBuf'.tag]_vars

\* a paint has drawn a converted frame and still holds the lock
C17_Witness ==
  /\ uiPc = "paint_done" /\ painted.image.alloc /\ painted.image.lo >= 1
  /\ painted.image.lo = painted.image.hi
  /\ inst[uiInst].lockOwner = "ui"

\* the last entry of the list box
LastItem(items) == items[Len(items)]

\* C18: SwitchToPeerList leaves the header and one entry per peer, tagged with
\* the peer's id.  With auto_call_ and a peer set that is not empty it selects
\* the last entry and posts the command a double click on the list sends, and
\* that command, dispatched to an observer in this state, requests
\* ConnectToPeer for the id of the last entry; otherwise it posts nothing.
C18_AutoCallLastPeer ==
  [][/\ (lastOp'.op = "SwitchToPeerList" /\ SwitchToPeerList(lastOp'.peers)) =>
          LET peers == lastOp'.peers IN
            /\ Len(listbox') = 1 + Cardinality(peers)
            /\ listbox'[1] = HeaderItem
            /\ \A id \in peers :
                 \E k \in 2..Len(listbox') :
                   listbox'[k] = [str |-> PeerNames[id], data |-> id]
            /\ IF auto_call_ /\ peers # {}
               THEN /\ cursel' = Len(listbox') - 1
                    /\ posted' = Append(posted, "LBN_DBLCLK")
                    /\ PostedCommand("LBN_DBLCLK") \in UserCommands
                    /\ LastItem(listbox').data \in peers
                    /\ \A id \in peers : id <= LastItem(listbox').data
               ELSE posted' = posted /\ cursel' = LB_ERR
     /\ (/\ lastOp'.op = "posted LBN_DBLCLK" /\ DispatchPosted
         /\ callback_ /\ ui_ = LIST_PEERS
         /\ Len(listbox) > 1 /\ cursel = Len(listbox) - 1)
          => lastCall' = ConnectToPeerCall(LastItem(listbox).data)]_vars

\* the posted double click has requested the connection to the last of two
\* peers
C18_Witness ==
  /\ auto_call_ /\ lastOp.op = "posted LBN_DBLCLK"
  /\ Len(listbox) = 3 /\ cursel = 2
  /\ lastCall = ConnectToPeerCall(2)

\* C21: HandleTabbing terminates in every UI state and for every focus
\* position: a tab gesture that has entered the loop of lines 922-941 leaves
\* it, also when no visible control has the tab-stop style (the peer list,
\* the streaming view) and when no control has the focus.
C21_TabbingTerminates == (uiPc = "tabbing") ~> (uiPc = "idle")

\* C22: a command a transition has posted acts, when it is processed, only as
\* the state that posted it does: the posted double click on the list requests
\* ConnectToPeer or nothing and never StartLogin, the posted click on the
\* button requests StartLogin (or nothing without an observer) and never
\* ConnectToPeer, whatever transitions were called in between.
C22_PostedCommandKeepsState ==
  [][/\ (lastOp'.op = "posted LBN_DBLCLK" /\ DispatchPosted)
          => lastCall'.fn \in {"ConnectToPeer", "none"}
     /\ (lastOp'.op = "posted BM_CLICK" /\ DispatchPosted)
          => lastCall'.fn \in {"StartLogin", "none"}]_vars

\* C23: OnFrame never deadlocks on its own lock: SetSize, called with the
\* lock held, can take it again on the same thread; every OnFrame call
\* completes; and when it returns the lock is fully released (count zero, no
\* owner), so that a paint waiting for it can enter.
C23_OnFrameReleasesLock ==
  /\ [](prodPc = "SetSize" =>
         /\ inst[prodInst].lockOwner = "producer"
         /\ CanEnter(inst[prodInst], "producer"))
  /\ [][(prodPc = "return" /\ OnFrameReturn) =>
          /\ inst'[prodInst].lockCount = 0
          /\ inst'[prodInst].lockOwner = "none"
          /\ CanEnter(inst'[prodInst], "ui")]_vars
  /\ (prodPc # "idle") ~> (prodPc = "idle")

\* a paint has taken the lock of a renderer after OnFrame has stored a frame
\* in it and returned
C23_Witness ==
  /\ uiPc = "paint_blit" /\ prodPc = "idle"
  /\ lastFrame[uiInst].tag # 0
  /\ inst[uiInst].lockOwner = "ui" /\ inst[uiInst].lockCount = 1
  /\ inst[uiInst].image.hi = lastFrame[uiInst].tag

====
